---- MODULE Spec2Model ----
(***************************************************************************)
(* KVEdit: the foreground-latent extractor (cli_invert_target.py) and the  *)
(* edit runner (utils/kvedit_runner.py), as state machines.                 *)
(*                                                                         *)
(* Tensors are records [dtype, shape, data] with data the row-major        *)
(* flattening; images are records [mode, size, px] with size = <<w, h>>    *)
(* as in PIL and px the row-major sequence of pixel tuples.  Paths are     *)
(* sequences of one-character strings.  The pretrained models, PIL's file  *)
(* decoding and the operating system are the environment: their answers    *)
(* are drawn in Init (env) and stay fixed for a behaviour.                 *)
(***************************************************************************)
EXTENDS Integers, Sequences, FiniteSets, TLC

VARIABLES pc, args, env, fs, loc, err, log, runs, first

vars == <<pc, args, env, fs, loc, err, log, runs, first>>

(***************************************************************************)
(* Bounds of the model.  LatentSide stands for the 64 of load_mask and     *)
(* AEFactor for the autoencoder's 8x spatial reduction, so that the image  *)
(* side ImageSide stands for the 512 of preprocess_image.  Input images    *)
(* have sides up to MaxSide, above and below the sides they are resized to.*)
(***************************************************************************)
LatentSide == 2
AEFactor == 2
Channels == 2
MaxSide == 3
MaxLen == 4
MaxRuns == 2
MaxKvOps == 2

ImageSide == LatentSide * AEFactor

\* The 8-bit threshold of load_mask.
MaskThreshold == 128

(***************************************************************************)
(* Sequences and tensors                                                   *)
(***************************************************************************)
RECURSIVE Prod(_)
Prod(s) == IF s = <<>> THEN 1 ELSE Head(s) * Prod(Tail(s))

RECURSIVE Flatten(_)
Flatten(ss) == IF ss = <<>> THEN <<>> ELSE Head(ss) \o Flatten(Tail(ss))

RECURSIVE SelectIdx(_, _, _)
\* the indices i >= from of seq with seq[i] true, in increasing order
SelectIdx(seq, from, acc) ==
  IF from > Len(seq) THEN acc
  ELSE SelectIdx(seq, from + 1, IF seq[from] THEN Append(acc, from) ELSE acc)

NoTensor == [dtype |-> "none", shape |-> <<>>, data |-> <<>>]

Tensor(dtype, shape, data) == [dtype |-> dtype, shape |-> shape, data |-> data]

\* torch.zeros_like
zeros_like(t) == Tensor(t.dtype, t.shape, [i \in 1..Len(t.data) |-> 0])

\* Tensor.unsqueeze(0)
unsqueeze0(t) == Tensor(t.dtype, <<1>> \o t.shape, t.data)

\* Tensor.permute(2, 0, 1) of an (h, w, c) tensor: the (c, h, w) tensor
permute201(t) ==
  LET h == t.shape[1]
      w == t.shape[2]
      c == t.shape[3]
  IN  Tensor(t.dtype, <<c, h, w>>,
             [i \in 1..(c * h * w) |->
                LET ci == (i - 1) \div (h * w)
                    r  == ((i - 1) % (h * w)) \div w
                    k  == (i - 1) % w
                IN  t.data[(r * w + k) * c + ci + 1]])

(***************************************************************************)
(* PIL images                                                              *)
(***************************************************************************)
Bands(mode) == IF mode = "RGBA" THEN 4 ELSE IF mode = "RGB" THEN 3 ELSE 1

\* Image.convert("RGBA"): an image without alpha becomes fully opaque
convertRGBA(img) ==
  [mode |-> "RGBA", size |-> img.size,
   px |-> [i \in 1..Len(img.px) |->
             IF img.mode = "RGBA" THEN img.px[i]
             ELSE IF img.mode = "RGB" THEN Append(img.px[i], 255)
             ELSE <<img.px[i][1], img.px[i][1], img.px[i][1], 255>>]]

\* Image.convert("RGB"): alpha is dropped, greyscale is replicated
convertRGB(img) ==
  [mode |-> "RGB", size |-> img.size,
   px |-> [i \in 1..Len(img.px) |->
             IF img.mode = "L" THEN <<img.px[i][1], img.px[i][1], img.px[i][1]>>
             ELSE SubSeq(img.px[i], 1, 3)]]

\* Image.resize(size), size = <<w, h>>: each output pixel samples the source
\* pixel under its centre (the resampling kernel is PIL's; only the output
\* size and the 8-bit range of the samples are used below)
resize(img, size) ==
  LET w  == size[1]
      h  == size[2]
      sw == img.size[1]
      sh == img.size[2]
  IN  [mode |-> img.mode, size |-> <<w, h>>,
       px |-> [i \in 1..(w * h) |->
                 LET r  == (i - 1) \div w
                     k  == (i - 1) % w
                     sr == ((2 * r + 1) * sh) \div (2 * h)
                     sk == ((2 * k + 1) * sw) \div (2 * w)
                 IN  img.px[sr * sw + sk + 1]]]

\* np.array(image): an (h, w, bands) uint8 array
np_array(img) ==
  Tensor("uint8", <<img.size[2], img.size[1], Bands(img.mode)>>, Flatten(img.px))

\* a[:, :, 3]: the alpha plane of an (h, w, 4) array
alpha_plane(a) ==
  Tensor(a.dtype, <<a.shape[1], a.shape[2]>>,
         [i \in 1..(a.shape[1] * a.shape[2]) |-> a.data[(i - 1) * a.shape[3] + 4]])

\* the slip of dividing by 255: astype(np.float32) / 255.0 - 1.0
normalize_by_255(a) ==
  Tensor("float32", a.shape, [i \in 1..Len(a.data) |-> a.data[i] - 255])

\* astype(np.float32) / 127.5 - 1.0, in units of 1/255: v |-> 2v - 255
normalize(a) ==
  Tensor("float32", a.shape, [i \in 1..Len(a.data) |-> 2 * a.data[i] - 255])

\* the slip of an inclusive threshold: t >= 128
threshold_inclusive(t) ==
  Tensor("bool", t.shape, [i \in 1..Len(t.data) |-> t.data[i] >= MaskThreshold])

\* (t > 128).to(torch.bool)
threshold(t) ==
  Tensor("bool", t.shape, [i \in 1..Len(t.data) |-> t.data[i] > MaskThreshold])

(***************************************************************************)
(* cli_invert_target.py: preprocess_image, load_mask                       *)
(***************************************************************************)
preprocess_image(img, size) ==
  unsqueeze0(permute201(normalize(np_array(resize(convertRGB(img), size)))))

load_mask(img) ==
  threshold(unsqueeze0(unsqueeze0(alpha_plane(np_array(
     resize(convertRGBA(img), <<LatentSide, LatentSide>>))))))

(***************************************************************************)
(* kvedit_runner.py: preprocess_image (fixed size), load_mask              *)
(***************************************************************************)
kv_preprocess_image(img) ==
  unsqueeze0(permute201(normalize(np_array(
     resize(convertRGB(img), <<ImageSide, ImageSide>>)))))

kv_load_mask(img) ==
  threshold(unsqueeze0(unsqueeze0(alpha_plane(np_array(
     resize(convertRGBA(img), <<LatentSide, LatentSide>>))))))

(***************************************************************************)
(* os.path on POSIX: paths are sequences of one-character strings          *)
(***************************************************************************)
RECURSIVE LastIndexOf(_, _)
\* str.rfind(ch) + 1: the 1-based index of the last ch in p, 0 if none
LastIndexOf(p, ch) ==
  IF p = <<>> THEN 0
  ELSE IF p[Len(p)] = ch THEN Len(p)
  ELSE LastIndexOf(SubSeq(p, 1, Len(p) - 1), ch)

RECURSIVE rstrip(_, _)
rstrip(p, ch) ==
  IF p # <<>> /\ p[Len(p)] = ch THEN rstrip(SubSeq(p, 1, Len(p) - 1), ch) ELSE p

\* os.path.basename
basename(p) == SubSeq(p, LastIndexOf(p, "/") + 1, Len(p))

\* os.path.dirname
dirname(p) ==
  LET head == SubSeq(p, 1, LastIndexOf(p, "/"))
  IN  IF rstrip(head, "/") = <<>> THEN head ELSE rstrip(head, "/")

RECURSIVE FirstNonDot(_, _, _)
\* the first index in from..(to - 1) whose character is not a dot, 0 if none
FirstNonDot(p, from, to) ==
  IF from >= to THEN 0
  ELSE IF p[from] # "." THEN from
  ELSE FirstNonDot(p, from + 1, to)

\* os.path.splitext(p)[0]: the last dot of the last component starts the
\* extension, unless only dots precede it in that component
splitext_root(p) ==
  LET sep == LastIndexOf(p, "/")
      dot == LastIndexOf(p, ".")
  IN  IF dot > sep /\ FirstNonDot(p, sep + 1, dot) # 0
      THEN SubSeq(p, 1, dot - 1)
      ELSE p

\* os.path.join(a, b)
join(a, b) ==
  IF b # <<>> /\ b[1] = "/" THEN b
  ELSE IF a = <<>> \/ a[Len(a)] = "/" THEN a \o b
  ELSE a \o <<"/">> \o b

RECURSIVE Components(_)
\* the names along a path: the filesystem's view of it
Components(p) ==
  IF p = <<>> THEN <<>>
  ELSE LET rest == Components(SubSeq(p, 1, Len(p) - 1))
           ch   == p[Len(p)]
       IN  IF ch = "/" THEN (IF rest = <<>> \/ rest[Len(rest)] = <<>>
                             THEN rest ELSE Append(rest, <<>>))
           ELSE IF rest = <<>> THEN <<<<ch>>>>
           ELSE [rest EXCEPT ![Len(rest)] = Append(@, ch)]

\* the file or directory a path names: its components, a trailing slash dropped
Node(p) ==
  LET c == Components(p)
  IN  IF c # <<>> /\ c[Len(c)] = <<>> THEN SubSeq(c, 1, Len(c) - 1) ELSE c

Prefixes(c) == {SubSeq(c, 1, n) : n \in 1..Len(c)}

EmptyFS == [dirs |-> {}, files |-> <<>>]

FileExists(f, p) == Node(p) \in DOMAIN f.files

\* os.makedirs(p, exist_ok=True): "ok", or the exception it raises
makedirs_result(f, p) ==
  IF p = <<>> THEN "FileNotFoundError"
  ELSE IF \E c \in Prefixes(Node(p)) : c \in DOMAIN f.files THEN "FileExistsError"
  ELSE "ok"

makedirs(f, p) == [f EXCEPT !.dirs = @ \cup Prefixes(Node(p))]

\* writing a file: its directory must exist (the working directory does)
write_result(f, p) ==
  LET n == Node(p)
  IN  IF n = <<>> \/ n \in f.dirs THEN "IsADirectoryError"
      ELSE IF Len(n) > 1 /\ SubSeq(n, 1, Len(n) - 1) \notin f.dirs
      THEN "FileNotFoundError"
      ELSE "ok"

write_file(f, p, content) ==
  [f EXCEPT !.files = [n \in DOMAIN @ \cup {Node(p)} |->
                         IF n = Node(p) THEN content ELSE @[n]]]

(***************************************************************************)
(* The external models                                                     *)
(***************************************************************************)
NoImage == [mode |-> "none", size |-> <<0, 0>>, px |-> <<>>]

\* ae.encode(x): a (1, Channels, H/f, W/f) float32 latent; its values are the
\* autoencoder's, drawn by the environment as a pattern <<base, step>>
ae_encode(x, pattern) ==
  LET h == x.shape[3] \div AEFactor
      w == x.shape[4] \div AEFactor
  IN  Tensor("float32", <<1, Channels, h, w>>,
             [i \in 1..(Channels * h * w) |-> pattern[1] + pattern[2] * (i - 1)])

RECURSIVE Ulp(_)
\* the spacing of bfloat16 (8 significant bits) at magnitude m
Ulp(m) == IF m < 256 THEN 1 ELSE 2 * Ulp(m \div 2)

\* the bfloat16 nearest to the integer n, ties to even
round_bf16(n) ==
  LET m == IF n < 0 THEN 0 - n ELSE n
      u == Ulp(m)
      q == m \div u
      r == m % u
      up == IF 2 * r > u THEN TRUE ELSE IF 2 * r < u THEN FALSE ELSE q % 2 = 1
      v == (IF up THEN q + 1 ELSE q) * u
  IN  IF n < 0 THEN 0 - v ELSE v

\* Tensor.to(torch.bfloat16)
to_bfloat16(t) ==
  Tensor("bfloat16", t.shape, [i \in 1..Len(t.data) |-> round_bf16(t.data[i])])

\* Tensor.to(torch.float32): widening, exact
to_float32(t) == Tensor("float32", t.shape, t.data)

(***************************************************************************)
(* Boolean-mask indexing                                                    *)
(***************************************************************************)
\* whether m.expand_as(t) is defined: each dimension of m is 1 or t's
expandable(m, t) ==
  /\ Len(m.shape) = Len(t.shape)
  /\ \A d \in 1..Len(m.shape) : m.shape[d] = 1 \/ m.shape[d] = t.shape[d]

\* m.expand_as(t) for rank-4 tensors: size-1 dimensions are repeated
expand_as(m, t) ==
  LET C == t.shape[2]
      H == t.shape[3]
      W == t.shape[4]
      mC == m.shape[2]
      mH == m.shape[3]
      mW == m.shape[4]
  IN  Tensor(m.dtype, t.shape,
             [i \in 1..Prod(t.shape) |->
                LET b == (i - 1) \div (C * H * W)
                    c == ((i - 1) \div (H * W)) % C
                    r == ((i - 1) \div W) % H
                    k == (i - 1) % W
                    mb == IF m.shape[1] = 1 THEN 0 ELSE b
                    mc == IF mC = 1 THEN 0 ELSE c
                    mr == IF mH = 1 THEN 0 ELSE r
                    mk == IF mW = 1 THEN 0 ELSE k
                IN  m.data[((mb * mC + mc) * mH + mr) * mW + mk + 1]])

\* t[M]: the elements of t where M is true, in row-major order
masked_select(t, M) ==
  LET idx == SelectIdx(M.data, 1, <<>>)
  IN  [j \in 1..Len(idx) |-> t.data[idx[j]]]

\* t[M] = vals: the j-th value goes to the j-th true position of M
masked_assign(t, M, vals) ==
  LET idx == SelectIdx(M.data, 1, <<>>)
  IN  [t EXCEPT !.data =
         [i \in 1..Len(t.data) |->
            IF M.data[i]
            THEN vals[CHOOSE j \in 1..Len(idx) : idx[j] = i]
            ELSE t.data[i]]]

\* the slip of keeping the background: the mask is negated
foreground_inverted(z_tgt, mask) ==
  LET M == expand_as(mask, z_tgt)
      N == [M EXCEPT !.data = [i \in 1..Len(M.data) |-> ~M.data[i]]]
  IN  masked_assign(zeros_like(z_tgt), N, masked_select(z_tgt, N))

\* lines 41-42 of cli_invert_target.py
foreground(z_tgt, mask) ==
  LET M == expand_as(mask, z_tgt)
  IN  masked_assign(zeros_like(z_tgt), M, masked_select(z_tgt, M))

\* torch.save's file content for a tensor
serialize(t) == [kind |-> "tensor", tensor |-> t]

(***************************************************************************)
(* cli_invert_target.py: main                                              *)
(***************************************************************************)
\* the slip of keeping the extension: no os.path.splitext
latent_name_with_ext(target_image) ==
  <<"z_fg_">> \o basename(target_image) \o <<".pt">>

\* the file name of the saved latent (lines 45-46)
latent_name(target_image) ==
  <<"z_fg_">> \o splitext_root(basename(target_image)) \o <<".pt">>

latent_path(save_dir, target_image) == join(save_dir, latent_name(target_image))

\* the slip of leaving exist_ok out: an existing directory raises
makedirs_not_exist_ok(f, p) ==
  IF Node(p) \in f.dirs THEN "FileExistsError" ELSE makedirs_result(f, p)

\* os.makedirs(args.save_dir, exist_ok=True) (line 44)
x_makedirs_result(f, p) == makedirs_result(f, p)

XLocals ==
  [x_tgt |-> NoTensor, mask |-> NoTensor, z_tgt |-> NoTensor, z_fg |-> NoTensor,
   save_path |-> <<>>]

Raise(kind) ==
  /\ pc' = "failed"
  /\ err' = kind

\* ae = load_ae(args.model_name, device=device); ae.eval().to(device)
X_LoadAE ==
  /\ pc = "x_load_ae"
  /\ IF env.fail = "load_ae"
     THEN Raise("ExternalError") /\ UNCHANGED log
     ELSE pc' = "x_preprocess" /\ log' = Append(log, "load_ae") /\ UNCHANGED err
  /\ UNCHANGED <<args, env, fs, loc, runs, first>>

\* x_tgt = preprocess_image(args.target_image).to(device)
X_Preprocess ==
  /\ pc = "x_preprocess"
  /\ IF env.target = NoImage
     THEN Raise("FileNotFound") /\ UNCHANGED <<loc, log>>
     ELSE /\ loc' = [loc EXCEPT !.x_tgt =
                        preprocess_image(env.target, <<ImageSide, ImageSide>>)]
          /\ pc' = "x_load_mask"
          /\ log' = Append(log, "preprocess")
          /\ UNCHANGED err
  /\ UNCHANGED <<args, env, fs, runs, first>>

\* mask = load_mask(args.mask, device)
X_LoadMask ==
  /\ pc = "x_load_mask"
  /\ IF env.mask = NoImage
     THEN Raise("FileNotFound") /\ UNCHANGED <<loc, log>>
     ELSE /\ loc' = [loc EXCEPT !.mask = load_mask(env.mask)]
          /\ pc' = "x_encode"
          /\ log' = Append(log, "load_mask")
          /\ UNCHANGED err
  /\ UNCHANGED <<args, env, fs, runs, first>>

\* z_tgt = ae.encode(x_tgt).to(torch.bfloat16)
X_Encode ==
  /\ pc = "x_encode"
  /\ IF env.fail = "encode"
     THEN Raise("ExternalError") /\ UNCHANGED <<loc, log>>
     ELSE /\ loc' = [loc EXCEPT !.z_tgt = to_bfloat16(ae_encode(loc.x_tgt, env.encoded))]
          /\ pc' = "x_foreground"
          /\ log' = Append(log, "encode")
          /\ UNCHANGED err
  /\ UNCHANGED <<args, env, fs, runs, first>>

\* z_fg = zeros_like(z_tgt); z_fg[mask.expand_as(z_tgt)] = z_tgt[...]
X_Foreground ==
  /\ pc = "x_foreground"
  /\ IF ~expandable(loc.mask, loc.z_tgt)
     THEN Raise("RuntimeError") /\ UNCHANGED <<loc, log>>
     ELSE /\ loc' = [loc EXCEPT !.z_fg = foreground(loc.z_tgt, loc.mask)]
          /\ pc' = "x_makedirs"
          /\ log' = Append(log, "foreground")
          /\ UNCHANGED err
  /\ UNCHANGED <<args, env, fs, runs, first>>

\* os.makedirs(args.save_dir, exist_ok=True)
X_MakeDirs ==
  /\ pc = "x_makedirs"
  /\ IF x_makedirs_result(fs, args.save_dir) # "ok"
     THEN Raise(x_makedirs_result(fs, args.save_dir)) /\ UNCHANGED <<fs, log>>
     ELSE /\ fs' = makedirs(fs, args.save_dir)
          /\ pc' = "x_save"
          /\ log' = Append(log, "makedirs")
          /\ UNCHANGED err
  /\ UNCHANGED <<args, env, loc, runs, first>>

\* fname, save_path, torch.save(z_fg, save_path)
X_Save ==
  /\ pc = "x_save"
  /\ LET save_path == latent_path(args.save_dir, args.target_image)
         res == IF env.fail = "save" THEN "IOError" ELSE write_result(fs, save_path)
     IN  IF res # "ok"
         THEN Raise(res) /\ UNCHANGED <<fs, loc, log>>
         ELSE /\ fs' = write_file(fs, save_path, serialize(loc.z_fg))
              /\ loc' = [loc EXCEPT !.save_path = save_path]
              /\ pc' = "done"
              /\ log' = Append(log, "save")
              /\ UNCHANGED err
  /\ UNCHANGED <<args, env, runs, first>>

\* the same command line is run again
X_Rerun ==
  /\ pc = "done"
  /\ runs < MaxRuns
  /\ pc' = "x_load_ae"
  /\ runs' = runs + 1
  /\ first' = IF runs = 1 THEN fs ELSE first
  /\ loc' = XLocals
  /\ log' = <<>>
  /\ UNCHANGED <<args, env, fs, err>>

NextExtract ==
  \/ X_LoadAE
  \/ X_Preprocess
  \/ X_LoadMask
  \/ X_Encode
  \/ X_Foreground
  \/ X_MakeDirs
  \/ X_Save
  \/ X_Rerun

(***************************************************************************)
(* Inputs                                                                  *)
(***************************************************************************)
\* RGBA colours; alpha straddles the threshold
Colours == {<<0, 0, 0, 0>>, <<255, 255, 255, 255>>, <<10, 127, 30, 128>>, <<200, 128, 50, 129>>}

Pixel(mode, c) ==
  IF mode = "RGBA" THEN c ELSE IF mode = "RGB" THEN SubSeq(c, 1, 3) ELSE <<c[2]>>

\* a w x h image file of the given mode, c1 and c2 in a checkerboard
MkImage(mode, w, h, c1, c2) ==
  [mode |-> mode, size |-> <<w, h>>,
   px |-> [i \in 1..(w * h) |->
             Pixel(mode, IF (((i - 1) \div w) + ((i - 1) % w)) % 2 = 0 THEN c1 ELSE c2)]]

Modes == {"RGBA", "RGB", "L"}

ImageFiles ==
  {MkImage(m, w, h, c1, c2) :
     m \in Modes, w \in 1..MaxSide, h \in 1..MaxSide, c1 \in Colours, c2 \in Colours}

Sizes == (1..MaxSide) \X (1..MaxSide)

\* what the autoencoder may answer: constant, crossing zero, beyond 8 bits
EncPatterns == {<<0, 0>>, <<3, 0>>, <<-2, 1>>, <<255, 1>>}

ExtFails == {"none", "load_ae", "encode", "save"}

PathChars == {"a", ".", "/"}

Strs(n) == UNION {[1..k -> PathChars] : k \in 0..n}

SaveDirs == {<<>>, <<"d">>, <<"d", "/">>, <<"d", "/", "e">>}

\* whether a path can name a regular file
IsFileName(p) == basename(p) \notin {<<>>, <<".">>, <<".", ".">>}

SolidImage == MkImage("RGB", 1, 1, <<10, 127, 30, 128>>, <<10, 127, 30, 128>>)

OpaqueMask == MkImage("RGBA", 1, 1, <<255, 255, 255, 255>>, <<255, 255, 255, 255>>)

(***************************************************************************)
(* The preprocessors and mask loaders applied to a drawn image             *)
(***************************************************************************)
InitFn ==
  /\ pc = "fn"
  /\ args \in [image : ImageFiles, size : Sizes]
  /\ env = [fail |-> "none"]
  /\ fs = EmptyFS
  /\ loc = [fn |-> "none", out |-> NoTensor]
  /\ err = "none"
  /\ log = <<>>
  /\ runs = 1
  /\ first = EmptyFS

Apply(fn, out) ==
  /\ pc = "fn"
  /\ pc' = "returned"
  /\ loc' = [fn |-> fn, out |-> out]
  /\ UNCHANGED <<args, env, fs, err, log, runs, first>>

Fn_preprocess_image == Apply("preprocess_image", preprocess_image(args.image, args.size))

Fn_load_mask == Apply("load_mask", load_mask(args.image))

Fn_kv_preprocess_image == Apply("kv_preprocess_image", kv_preprocess_image(args.image))

Fn_kv_load_mask == Apply("kv_load_mask", kv_load_mask(args.image))

NextFn ==
  \/ Fn_preprocess_image
  \/ Fn_load_mask
  \/ Fn_kv_preprocess_image
  \/ Fn_kv_load_mask

SpecFn == InitFn /\ [][NextFn]_vars

(***************************************************************************)
(* The extractor's runs                                                    *)
(***************************************************************************)
\* masks and latents vary, the paths are fixed
InitExtract ==
  /\ pc = "x_load_ae"
  /\ args = [target_image |-> <<"a", ".", "a">>, save_dir |-> <<"d">>]
  /\ env \in [target : {SolidImage, NoImage}, mask : ImageFiles \cup {NoImage},
              encoded : EncPatterns, fail : ExtFails]
  /\ fs = EmptyFS
  /\ loc = XLocals
  /\ err = "none"
  /\ log = <<>>
  /\ runs = 1
  /\ first = EmptyFS

SpecExtract == InitExtract /\ [][NextExtract]_vars

\* the paths vary, the images are fixed
InitPath ==
  /\ pc = "x_load_ae"
  /\ args \in [target_image : Strs(MaxLen), save_dir : SaveDirs]
  /\ env \in [target : IF IsFileName(args.target_image)
                       THEN {SolidImage, NoImage} ELSE {NoImage},
              mask : {OpaqueMask}, encoded : {<<3, 0>>}, fail : {"none"}]
  /\ fs = EmptyFS
  /\ loc = XLocals
  /\ err = "none"
  /\ log = <<>>
  /\ runs = 1
  /\ first = EmptyFS

SpecPath == InitPath /\ [][NextExtract]_vars

(***************************************************************************)
(* Properties of the extractor                                             *)
(***************************************************************************)
\* the flat index of (c, r, k) in a (1, C, H, W) tensor
At(t, c, r, k) == t.data[((c - 1) * t.shape[3] + (r - 1)) * t.shape[4] + k]

\* the mask's entry at (r, k)
MaskAt(m, r, k) == m.data[(r - 1) * m.shape[4] + k]

ForegroundComputed == pc \in {"x_makedirs", "x_save", "done"} /\ loc.z_fg # NoTensor

\* C1: once the extractor has masked the encoded latent, z_fg has the shape
\* of z_tgt and at every (channel, row, column) equals z_tgt where the mask
\* is true at (row, column) and 0 where it is false; an all-false mask gives
\* the zero tensor, an all-true mask gives z_tgt; the saved file holds z_fg.
C1_ForegroundMasking ==
  ForegroundComputed =>
    /\ loc.z_fg.shape = loc.z_tgt.shape
    /\ Len(loc.z_fg.data) = Prod(loc.z_tgt.shape)
    /\ \A c \in 1..loc.z_tgt.shape[2], r \in 1..loc.z_tgt.shape[3],
          k \in 1..loc.z_tgt.shape[4] :
         At(loc.z_fg, c, r, k) =
           IF MaskAt(loc.mask, r, k) THEN At(loc.z_tgt, c, r, k) ELSE 0
    /\ (\A i \in 1..Len(loc.mask.data) : ~loc.mask.data[i])
         => \A i \in 1..Len(loc.z_fg.data) : loc.z_fg.data[i] = 0
    /\ (\A i \in 1..Len(loc.mask.data) : loc.mask.data[i])
         => loc.z_fg = loc.z_tgt
    /\ pc = "done" => fs.files[Node(loc.save_path)] = serialize(loc.z_fg)

\* a finished run whose mask keeps some positions and drops others, one of
\* the dropped ones holding a nonzero latent value
C1_Witness ==
  /\ pc = "done"
  /\ \E r1, r2 \in 1..LatentSide, k1, k2 \in 1..LatentSide :
       /\ MaskAt(loc.mask, r1, k1)
       /\ ~MaskAt(loc.mask, r2, k2)
       /\ At(loc.z_tgt, 1, r1, k1) # 0
       /\ At(loc.z_tgt, Channels, r2, k2) # 0
       /\ At(loc.z_fg, Channels, r2, k2) = 0

HasAlpha(img) == img.mode = "RGBA"

\* C3: a mask image without an alpha channel is rejected: no mask tensor is
\* produced from it and no latent file is written.
C3_NoAlphaRejected ==
  (env.mask # NoImage /\ ~HasAlpha(env.mask)) =>
    /\ loc.mask = NoTensor
    /\ fs.files = <<>>
    /\ (pc = "failed" /\ Len(log) = 2) => err = "InvalidMask"

\* C9: a second run of the extractor with the same arguments does not fail
\* and leaves exactly the files, with exactly the contents, of the first.
C9_Idempotent ==
  runs >= 2 =>
    /\ pc # "failed"
    /\ pc = "done" => fs.files = first.files /\ fs.dirs = first.dirs
    /\ DOMAIN fs.files = DOMAIN first.files

C9_Witness ==
  /\ runs = 2
  /\ pc = "done"
  /\ DOMAIN fs.files = {Node(loc.save_path)}
  /\ \E i \in 1..Len(loc.z_fg.data) : loc.z_fg.data[i] # 0

(***************************************************************************)
(* The saved latent's path                                                 *)
(***************************************************************************)
\* n splits base into a stem and an extension: base[n+1] is the last dot and
\* the stem is not made of dots alone
SplitsAt(base, n) ==
  /\ n < Len(base)
  /\ base[n + 1] = "."
  /\ \A i \in (n + 2)..Len(base) : base[i] # "."
  /\ \E i \in 1..n : base[i] # "."

\* the name without its last extension
Stem(base) ==
  IF \E n \in 0..Len(base) : SplitsAt(base, n)
  THEN SubSeq(base, 1, CHOOSE n \in 0..Len(base) : SplitsAt(base, n))
  ELSE base

InDir(dir, name) == Append(Node(dir), name)

\* C6 (as stated): the latent is written to exactly
\* <save_dir>/z_fg_<basename(target_image)>.pt, the basename keeping its
\* extension.
C6_Original ==
  pc = "done" =>
    DOMAIN fs.files =
      {InDir(args.save_dir, <<"z_fg_">> \o basename(args.target_image) \o <<".pt">>)}

\* C6 (amended): the latent is written to exactly <save_dir>/z_fg_<stem>.pt,
\* stem being the target's basename without its last extension, after
\* save_dir has been created; nothing else is written, and with an empty
\* save_dir the run fails at os.makedirs and writes nothing.
C6_SavedPath ==
  /\ DOMAIN fs.files \subseteq
       {InDir(args.save_dir, <<"z_fg_">> \o Stem(basename(args.target_image)) \o <<".pt">>)}
  /\ fs.files # <<>> => Node(args.save_dir) \in fs.dirs
  /\ pc = "x_save" => Node(args.save_dir) \in fs.dirs
  /\ pc = "done" => fs.files # <<>>
  /\ args.save_dir = <<>> => fs.files = <<>> /\ pc # "done"

\* a finished run whose target has a directory part and an extension
C6_Witness ==
  /\ pc = "done"
  /\ args.target_image = <<"a", "/", "a", ".">> \/ args.target_image = <<"/", "a", ".", "a">>
  /\ DOMAIN fs.files # {}
  /\ args.save_dir = <<"d", "/", "e">>

(***************************************************************************)
(* Properties of the preprocessors and the mask loaders                    *)
(***************************************************************************)
\* the resized RGBA image load_mask thresholds
ResizedMask == resize(convertRGBA(args.image), <<LatentSide, LatentSide>>)

AlphaAt(img, r, k) == img.px[(r - 1) * img.size[1] + k][4]

\* C2: both mask loaders return a boolean (1,1,L,L) tensor whose entry at
\* (r, k) is true exactly when the resized image's alpha there exceeds 128:
\* 128 gives false, 129 gives true.
C2_MaskLoader ==
  loc.fn \in {"load_mask", "kv_load_mask"} =>
    /\ loc.out.dtype = "bool"
    /\ loc.out.shape = <<1, 1, LatentSide, LatentSide>>
    /\ Len(loc.out.data) = LatentSide * LatentSide
    /\ \A r \in 1..LatentSide, k \in 1..LatentSide :
         /\ MaskAt(loc.out, r, k) = (AlphaAt(ResizedMask, r, k) > 128)
         /\ AlphaAt(ResizedMask, r, k) = 128 => ~MaskAt(loc.out, r, k)
         /\ AlphaAt(ResizedMask, r, k) = 129 => MaskAt(loc.out, r, k)

\* a loaded mask whose resized alpha holds both 128 and 129
C2_Witness ==
  /\ loc.fn = "kv_load_mask"
  /\ args.image.mode = "RGBA"
  /\ \E r1, r2 \in 1..LatentSide, k1, k2 \in 1..LatentSide :
       /\ AlphaAt(ResizedMask, r1, k1) = 128
       /\ AlphaAt(ResizedMask, r2, k2) = 129
       /\ ~MaskAt(loc.out, r1, k1)
       /\ MaskAt(loc.out, r2, k2)

\* the 8-bit value of channel c at row r, column k of an RGB image
ChannelAt(img, c, r, k) == img.px[(r - 1) * img.size[1] + k][c]

\* out[0, c, r, k] = v/127.5 - 1 for the resized image's value v there,
\* within [-1, 1] (values in units of 1/255)
Normalized(out, img) ==
  \A c \in 1..3, r \in 1..img.size[2], k \in 1..img.size[1] :
    LET v == ChannelAt(img, c, r, k)
        x == At(out, c, r, k)
    IN  /\ x = 2 * v - 255
        /\ -255 <= x /\ x <= 255
        /\ v = 0 => x = -255
        /\ v = 255 => x = 255

\* C8: the extractor's preprocessor returns a (1,3,H,W) tensor for the
\* requested size (W, H), the runner's one for its fixed square size, and
\* every element is v/127.5 - 1 in [-1,1], 0 giving -1 and 255 giving 1.
C8_Preprocessor ==
  /\ loc.fn = "preprocess_image" =>
       /\ loc.out.shape = <<1, 3, args.size[2], args.size[1]>>
       /\ Len(loc.out.data) = 3 * args.size[2] * args.size[1]
       /\ Normalized(loc.out, resize(convertRGB(args.image), args.size))
  /\ loc.fn = "kv_preprocess_image" =>
       /\ loc.out.shape = <<1, 3, ImageSide, ImageSide>>
       /\ Len(loc.out.data) = 3 * ImageSide * ImageSide
       /\ Normalized(loc.out, resize(convertRGB(args.image), <<ImageSide, ImageSide>>))

\* a non-square request on an image holding both 0 and 255
C8_Witness ==
  /\ loc.fn = "preprocess_image"
  /\ args.size[1] # args.size[2]
  /\ \E i, j \in 1..Len(loc.out.data) : loc.out.data[i] = -255 /\ loc.out.data[j] = 255

(***************************************************************************)
(* kvedit_runner.py: run_edit_from_latent                                  *)
(***************************************************************************)
\* the names the module's import lines bind (lines 1-10)
ImportedNames ==
  {"os", "Image", "np", "torch", "defaultdict", "rearrange", "load_ae", "load_clip",
   "load_t5", "prepare", "Flux_kv_edit", "F"}

BuiltinNames == {"int", "str", "float", "bool"}

\* the names the signature's annotations use (lines 29 and 33)
AnnotationNames == {"SamplingOptions", "int"}

\* executing the def statement: annotations are evaluated then and there by
\* interpreters before 3.14, and only on demand from 3.14 on
def_result(annotations) ==
  IF annotations = "eager" /\ ~(AnnotationNames \subseteq ImportedNames \cup BuiltinNames)
  THEN "NameError"
  ELSE "ok"

\* the slip of preparing the output directory before the inputs are loaded
kv_steps_mkdir_early ==
  <<"r_load_models", "r_preprocess", "r_encode", "r_makedirs", "r_load_latent",
    "r_load_mask", "r_prepare", "r_info", "r_denoise", "r_decode", "r_save">>

\* the statements of the function body, in program order (lines 36-68)
kv_steps ==
  <<"r_load_models", "r_preprocess", "r_encode", "r_load_latent", "r_load_mask",
    "r_prepare", "r_info", "r_denoise", "r_decode", "r_makedirs", "r_save">>

\* the statement after step, "done" after the last
After(step) ==
  LET i == CHOOSE j \in 1..Len(kv_steps) : kv_steps[j] = step
  IN  IF i = Len(kv_steps) THEN "done" ELSE kv_steps[i + 1]

\* torch.load(z_fg_path): "ok", or the failure's kind
torch_load_result(f, p) ==
  IF ~FileExists(f, p) THEN "DeserializationError"
  ELSE IF f.files[Node(p)].kind # "tensor" THEN "DeserializationError"
  ELSE "ok"

\* the parameters of the default factory, lambda _: ... (line 53)
FactoryParams == <<"_">>

\* defaultdict.__missing__ calls the factory without arguments
MissingCallArgs == <<>>

\* feature_dict[key]: [ok, value, feature]
feature_lookup(feature, key, z_bg) ==
  IF key \in DOMAIN feature
  THEN [ok |-> TRUE, missing |-> FALSE, value |-> feature[key], feature |-> feature]
  ELSE IF Len(FactoryParams) # Len(MissingCallArgs)
  THEN [ok |-> FALSE, missing |-> TRUE, value |-> NoTensor, feature |-> feature]
  ELSE [ok |-> TRUE, missing |-> TRUE, value |-> zeros_like(z_bg),
        feature |-> [k \in DOMAIN feature \cup {key} |->
                       IF k = key THEN zeros_like(z_bg) ELSE feature[k]]]

\* feature_dict[key] = value
feature_store(feature, key, value) ==
  [k \in DOMAIN feature \cup {key} |-> IF k = key THEN value ELSE feature[k]]

\* ae.decode(z): a (1, 3, H*f, W*f) image tensor, values drawn as a pattern
ae_decode(z, pattern) ==
  LET h == z.shape[3] * AEFactor
      w == z.shape[4] * AEFactor
  IN  Tensor("float32", <<1, 3, h, w>>,
             [i \in 1..(3 * h * w) |-> pattern[1] + pattern[2] * (i - 1)])

\* Tensor.clamp(-1, 1), in units of 1/255
clamp(t) ==
  [t EXCEPT !.data = [i \in 1..Len(t.data) |->
     IF t.data[i] < -255 THEN -255 ELSE IF t.data[i] > 255 THEN 255 ELSE t.data[i]]]

\* rearrange(x[0], "c h w -> h w c")
rearrange_hwc(t) ==
  LET c == t.shape[2]
      h == t.shape[3]
      w == t.shape[4]
  IN  Tensor(t.dtype, <<h, w, c>>,
             [i \in 1..(c * h * w) |->
                LET r  == (i - 1) \div (w * c)
                    k  == ((i - 1) \div c) % w
                    ci == (i - 1) % c
                IN  t.data[(ci * h + r) * w + k + 1]])

\* Image.fromarray(((x + 1.0) * 127.5).numpy().astype(np.uint8))
fromarray(t) ==
  [mode |-> "RGB", size |-> <<t.shape[2], t.shape[1]>>,
   px |-> [i \in 1..(t.shape[1] * t.shape[2]) |->
             [c \in 1..3 |-> (t.data[(i - 1) * 3 + c] + 255) \div 2]]]

\* model.denoise(...): a latent shaped like z_bg, its values the model's
kv_denoise(z_bg, pattern) ==
  Tensor("float32", z_bg.shape, [i \in 1..Len(z_bg.data) |-> pattern[1] + i])

\* os.makedirs(os.path.dirname(save_path), exist_ok=True) (line 67)
kv_makedirs_result(f, save_path) == makedirs_result(f, dirname(save_path))

RLocals ==
  [x_src |-> NoTensor, z_bg |-> NoTensor, z_fg |-> NoTensor, mask |-> NoTensor,
   inp_target |-> [prompt |-> "", shape |-> <<>>],
   info |-> [t |-> -1, feature |-> <<>>],
   kvi |-> 0,
   last |-> [ok |-> TRUE, missing |-> FALSE, value |-> NoTensor, feature |-> <<>>],
   result |-> NoTensor, out |-> NoImage]

Step(name) ==
  /\ pc = name
  /\ pc' = After(name)
  /\ log' = Append(log, name)
  /\ UNCHANGED err

\* the module is imported: its def statement is executed
R_Import ==
  /\ pc = "r_import"
  /\ IF def_result(env.annotations) # "ok"
     THEN Raise(def_result(env.annotations))
     ELSE pc' = kv_steps[1] /\ UNCHANGED err
  /\ UNCHANGED <<args, env, fs, loc, log, runs, first>>

\* ae, clip, t5, model are loaded and switched to eval mode
R_LoadModels ==
  /\ pc = "r_load_models"
  /\ IF env.fail = "load_models"
     THEN Raise("ExternalError") /\ UNCHANGED log
     ELSE Step("r_load_models")
  /\ UNCHANGED <<args, env, fs, loc, runs, first>>

\* x_src = preprocess_image(src_image_path).to(device)
R_Preprocess ==
  /\ pc = "r_preprocess"
  /\ IF env.src = NoImage
     THEN Raise("FileNotFound") /\ UNCHANGED <<loc, log>>
     ELSE /\ Step("r_preprocess")
          /\ loc' = [loc EXCEPT !.x_src = kv_preprocess_image(env.src)]
  /\ UNCHANGED <<args, env, fs, runs, first>>

\* z_bg = ae.encode(x_src).to(torch.float32)
R_Encode ==
  /\ pc = "r_encode"
  /\ IF env.fail = "encode"
     THEN Raise("ExternalError") /\ UNCHANGED <<loc, log>>
     ELSE /\ Step("r_encode")
          /\ loc' = [loc EXCEPT !.z_bg = to_float32(ae_encode(loc.x_src, env.encoded))]
  /\ UNCHANGED <<args, env, fs, runs, first>>

\* z_fg = torch.load(z_fg_path).to(torch.float32)
R_LoadLatent ==
  /\ pc = "r_load_latent"
  /\ IF torch_load_result(fs, args.z_fg_path) # "ok"
     THEN Raise(torch_load_result(fs, args.z_fg_path)) /\ UNCHANGED <<loc, log>>
     ELSE /\ Step("r_load_latent")
          /\ loc' = [loc EXCEPT !.z_fg = to_float32(fs.files[Node(args.z_fg_path)].tensor)]
  /\ UNCHANGED <<args, env, fs, runs, first>>

\* mask = load_mask(mask_path, device)
R_LoadMask ==
  /\ pc = "r_load_mask"
  /\ IF env.mask = NoImage
     THEN Raise("FileNotFound") /\ UNCHANGED <<loc, log>>
     ELSE /\ Step("r_load_mask")
          /\ loc' = [loc EXCEPT !.mask = kv_load_mask(env.mask)]
  /\ UNCHANGED <<args, env, fs, runs, first>>

\* inp_target = prepare(t5, clip, z_bg, prompt=opts.target_prompt)
R_Prepare ==
  /\ pc = "r_prepare"
  /\ IF env.fail = "prepare"
     THEN Raise("ExternalError") /\ UNCHANGED <<loc, log>>
     ELSE /\ Step("r_prepare")
          /\ loc' = [loc EXCEPT !.inp_target =
                        [prompt |-> args.opts.target_prompt, shape |-> loc.z_bg.shape]]
  /\ UNCHANGED <<args, env, fs, runs, first>>

\* feature_dict = defaultdict(lambda _: ...); info = {"t": ..., "feature": ...}
R_Info ==
  /\ pc = "r_info"
  /\ Step("r_info")
  /\ loc' = [loc EXCEPT !.info = [t |-> args.t_step, feature |-> <<>>]]
  /\ UNCHANGED <<args, env, fs, runs, first>>

\* inside model.denoise: the denoiser reads or writes info["feature"][key]
R_FeatureAccess ==
  /\ pc = "r_denoise"
  /\ loc.kvi < Len(env.kvops)
  /\ LET op == env.kvops[loc.kvi + 1]
         r  == feature_lookup(loc.info.feature, op.key, loc.z_bg)
     IN  IF op.op = "set"
         THEN /\ loc' = [loc EXCEPT !.kvi = @ + 1,
                           !.info.feature = feature_store(@, op.key, loc.z_fg)]
              /\ UNCHANGED <<pc, err>>
         ELSE /\ loc' = [loc EXCEPT !.kvi = @ + 1, !.last = r, !.info.feature = r.feature]
              /\ IF r.ok THEN UNCHANGED <<pc, err>> ELSE Raise("TypeError")
  /\ UNCHANGED <<args, env, fs, log, runs, first>>

\* result = model.denoise(z_bg, z_fg, inp_target, mask, opts, info)
R_Denoise ==
  /\ pc = "r_denoise"
  /\ loc.kvi = Len(env.kvops)
  /\ IF env.fail = "denoise"
     THEN Raise("ExternalError") /\ UNCHANGED <<loc, log>>
     ELSE /\ Step("r_denoise")
          /\ loc' = [loc EXCEPT !.result = kv_denoise(loc.z_bg, env.encoded)]
  /\ UNCHANGED <<args, env, fs, runs, first>>

\* x = ae.decode(...).clamp(-1, 1); rearrange; out = Image.fromarray(...)
R_Decode ==
  /\ pc = "r_decode"
  /\ IF env.fail = "decode"
     THEN Raise("ExternalError") /\ UNCHANGED <<loc, log>>
     ELSE /\ Step("r_decode")
          /\ loc' = [loc EXCEPT !.out =
                        fromarray(rearrange_hwc(clamp(ae_decode(loc.result, env.decoded))))]
  /\ UNCHANGED <<args, env, fs, runs, first>>

\* os.makedirs(os.path.dirname(save_path), exist_ok=True)
R_MakeDirs ==
  /\ pc = "r_makedirs"
  /\ IF kv_makedirs_result(fs, args.save_path) # "ok"
     THEN Raise(kv_makedirs_result(fs, args.save_path)) /\ UNCHANGED <<fs, log>>
     ELSE /\ Step("r_makedirs")
          /\ fs' = makedirs(fs, dirname(args.save_path))
  /\ UNCHANGED <<args, env, loc, runs, first>>

\* out.save(save_path)
R_Save ==
  /\ pc = "r_save"
  /\ LET res == IF env.fail = "save" THEN "IOError" ELSE write_result(fs, args.save_path)
     IN  IF res # "ok"
         THEN Raise(res) /\ UNCHANGED <<fs, log>>
         ELSE /\ Step("r_save")
              /\ fs' = write_file(fs, args.save_path, [kind |-> "image", image |-> loc.out])
  /\ UNCHANGED <<args, env, loc, runs, first>>

NextEdit ==
  \/ R_Import
  \/ R_LoadModels
  \/ R_Preprocess
  \/ R_Encode
  \/ R_LoadLatent
  \/ R_LoadMask
  \/ R_Prepare
  \/ R_Info
  \/ R_FeatureAccess
  \/ R_Denoise
  \/ R_Decode
  \/ R_MakeDirs
  \/ R_Save

(***************************************************************************)
(* The edit runner's invocations                                           *)
(***************************************************************************)
SavePaths ==
  {<<"o", ".png">>, <<"d", "/", "o", ".png">>, <<"d", "/", "e", "/", "o", ".png">>}

RFails == {"none", "load_models", "encode", "prepare", "denoise", "decode", "save"}

KvOps == [op : {"get", "set"}, key : {"k1"}]

KvOpSeqs == UNION {[1..n -> KvOps] : n \in 0..MaxKvOps}

\* the latent the extractor saves for SolidImage under OpaqueMask
SavedLatent ==
  serialize(foreground(
    to_bfloat16(ae_encode(preprocess_image(SolidImage, <<ImageSide, ImageSide>>), <<3, 0>>)),
    load_mask(OpaqueMask)))

OldOutput == [kind |-> "image", image |-> SolidImage]

\* the filesystem before the call
InitialFS(a, e) ==
  LET f1 == IF e.latent = "missing" THEN EmptyFS
            ELSE write_file(makedirs(EmptyFS, dirname(a.z_fg_path)), a.z_fg_path,
                            IF e.latent = "present" THEN SavedLatent
                            ELSE [kind |-> "garbage"])
  IN  IF e.existing
      THEN write_file(makedirs(f1, dirname(a.save_path)), a.save_path, OldOutput)
      ELSE f1

InitEdit ==
  /\ pc = "r_import"
  /\ args \in [src_image_path : {<<"s">>}, z_fg_path : {<<"l", "/", "z">>},
               mask_path : {<<"m">>}, opts : {[target_prompt |-> "p"]},
               save_path : SavePaths, t_step : {0, 7}]
  /\ env \in [annotations : {"eager", "deferred"}, src : {SolidImage, NoImage},
              mask : {OpaqueMask, NoImage}, encoded : {<<3, 0>>},
              decoded : {<<-300, 7>>}, fail : RFails, kvops : KvOpSeqs,
              latent : {"present", "missing", "corrupt"}, existing : BOOLEAN]
  /\ fs = InitialFS(args, env)
  /\ loc = RLocals
  /\ err = "none"
  /\ log = <<>>
  /\ runs = 1
  /\ first = fs

SpecEdit == InitEdit /\ [][NextEdit]_vars

(***************************************************************************)
(* Properties of the edit runner                                           *)
(***************************************************************************)
Done(step) == \E i \in 1..Len(log) : log[i] = step

\* C4: with the latent file missing, the run never gets past torch.load, it
\* fails there with a DeserializationError, and the filesystem (the output
\* path and its parent directories included) stays as it was before the call.
C4_MissingLatent ==
  env.latent = "missing" =>
    /\ fs = first
    /\ pc # "done"
    /\ ~Done("r_load_latent") /\ ~Done("r_makedirs") /\ ~Done("r_save")
    /\ (pc = "failed" /\ Done("r_encode")) => err = "DeserializationError"

\* the failed call, with an older output image still in place
C4_Witness ==
  /\ env.latent = "missing"
  /\ pc = "failed"
  /\ err = "DeserializationError"
  /\ env.existing
  /\ args.save_path = <<"d", "/", "o", ".png">>
  /\ fs.files[Node(args.save_path)] = OldOutput

\* C5: the feature cache starts empty beside "t" = t_step, and looking up a
\* key that is not present yields zeros shaped like z_bg and never raises.
C5_FeatureDefault ==
  /\ (pc = "r_denoise" /\ loc.kvi = 0) =>
       loc.info.feature = <<>> /\ loc.info.t = args.t_step
  /\ loc.last.missing => loc.last.ok /\ loc.last.value = zeros_like(loc.z_bg)
  /\ err # "TypeError"

\* C7: once decoding has succeeded and the filesystem accepts the write, the
\* runner does not raise: it creates the parent directories that are needed
\* and writes the image at save_path, for a bare file name too.
C7_SaveStep ==
  (Done("r_decode") /\ env.fail # "save") =>
    /\ pc # "failed"
    /\ pc = "done" =>
         /\ fs.files[Node(args.save_path)] = [kind |-> "image", image |-> loc.out]
         /\ Prefixes(Node(dirname(args.save_path))) \subseteq fs.dirs

ValidInputs ==
  /\ env.src # NoImage
  /\ env.mask # NoImage /\ HasAlpha(env.mask)
  /\ env.latent = "present"

\* C10: called with valid inputs and no external operation failing, the
\* runner does not fail, and it ends having loaded the models, encoded the
\* source, loaded the latent and the mask, built the conditioning and the
\* info bundle, denoised, decoded and saved, in this order, the write of the
\* output image being its last effect.
C10_SuccessPath ==
  (ValidInputs /\ env.fail = "none") =>
    /\ pc # "failed"
    /\ pc = "done" =>
         /\ log = <<"r_load_models", "r_preprocess", "r_encode", "r_load_latent",
                    "r_load_mask", "r_prepare", "r_info", "r_denoise", "r_decode",
                    "r_makedirs", "r_save">>
         /\ fs.files[Node(args.save_path)] = [kind |-> "image", image |-> loc.out]

====
